---------------------------- MODULE Spec2Model ----------------------------
(***************************************************************************)
(* A model of the METAR decoder of app.py: MetarDecoder and its helpers,    *)
(* fetch_metar and the route get_metar.                                    *)
(*                                                                         *)
(* Spec      one call of one method or function, step by step;             *)
(* ScanSpec  the calls of decode_weather_phenomenon, with fairness;        *)
(* ConcSpec  two invocations of decode_metar, interleaved.                 *)
(*                                                                         *)
(* Representation of Python values                                         *)
(*   str    a tuple of one-character strings, so that slicing, prefix      *)
(*          matching, case conversion and concatenation are computed;      *)
(*   None   the empty tuple; a field holding a dict or a non-empty str is  *)
(*          stored as is, an optional int and the argument of decode_metar *)
(*          (where "" and None both occur) are stored as Some(v) = <<v>>;  *)
(*   dict   a record (a function for the lookup tables);                   *)
(*   int    an integer; a number that may be a float (a visibility, a      *)
(*          pressure) is a record [float, num, den] in lowest terms.       *)
(***************************************************************************)
EXTENDS Integers, Sequences, FiniteSets, TLC

\* the call and the locals of decode_metar
VARIABLES op, arg, pc, parts, idx, result, ret, exc

\* the locals of the scan of decode_weather_phenomenon, and its iterations
VARIABLES scan, iterations

\* the local of get_metar, the pair fetch_metar returned, what the network
\* did to the request, and the calls made so far: of fetch_metar, of
\* requests.get and of decode_metar
VARIABLES airport_code, fetched, network, fetch_calls, http_calls, decode_calls

\* the concurrent invocations of decode_metar, each with its own locals, and
\* the wind_directions attribute of each MetarDecoder instance
VARIABLES threads, decoders

scanvars == <<scan, iterations>>

concvars == <<threads, decoders>>

callvars == <<op, arg, pc, parts, idx, result, ret, exc>>

svcvars == <<airport_code, fetched, network, fetch_calls, http_calls, decode_calls>>

vars == <<op, arg, pc, parts, idx, result, ret, exc, scanvars, svcvars, concvars>>

None == << >>

Some(v) == <<v>>

(***************************************************************************)
(* Characters and strings                                                  *)
(***************************************************************************)
Digits == <<"0","1","2","3","4","5","6","7","8","9">>

Upper == <<"A","B","C","D","E","F","G","H","I","J","K","L","M","N","O","P","Q","R","S","T","U","V","W","X","Y","Z">>

Lower == <<"a","b","c","d","e","f","g","h","i","j","k","l","m","n","o","p","q","r","s","t","u","v","w","x","y","z">>

IsDigit(c) == \E k \in DOMAIN Digits : Digits[k] = c

IsUpper(c) == \E k \in DOMAIN Upper : Upper[k] = c

IsSpace(c) == c = " "

AllDigits(s) == \A k \in DOMAIN s : IsDigit(s[k])

\* s[a:b] of Python for 0 <= a, with the end clipped to len(s)
Slice(s, a, b) == SubSeq(s, a + 1, IF b < Len(s) THEN b ELSE Len(s))

StartsWith(s, p) == Len(s) >= Len(p) /\ SubSeq(s, 1, Len(p)) = p

\* str.lower() on the ASCII letters
LowerChar(c) == IF IsUpper(c) THEN Lower[CHOOSE k \in DOMAIN Upper : Upper[k] = c] ELSE c

StrLower(s) == [k \in DOMAIN s |-> LowerChar(s[k])]

IsLower(c) == \E k \in DOMAIN Lower : Lower[k] = c

\* str.upper() on the ASCII letters
UpperChar(c) == IF IsLower(c) THEN Upper[CHOOSE k \in DOMAIN Lower : Lower[k] = c] ELSE c

StrUpper(s) == [k \in DOMAIN s |-> UpperChar(s[k])]

\* str.lstrip() and str.strip(), the whitespace being the blank
RECURSIVE LStrip(_)
LStrip(s) == IF Len(s) > 0 /\ IsSpace(s[1]) THEN LStrip(Tail(s)) ELSE s

RECURSIVE StrStrip(_)
StrStrip(s) ==
    IF Len(s) > 0 /\ IsSpace(s[Len(s)]) THEN StrStrip(SubSeq(s, 1, Len(s) - 1)) ELSE LStrip(s)

DigitVal(c) == (CHOOSE k \in DOMAIN Digits : Digits[k] = c) - 1

\* int(s) for a string of decimal digits
RECURSIVE ParseDigits(_)
ParseDigits(s) ==
    IF s = << >> THEN 0
    ELSE 10 * ParseDigits(SubSeq(s, 1, Len(s) - 1)) + DigitVal(s[Len(s)])

\* int(s) succeeds on the strings of this model exactly when s is a non-empty
\* run of digits; otherwise it raises ValueError
IntOk(s) == s # << >> /\ AllDigits(s)

\* str(n) for an int n >= 0
RECURSIVE IntStr(_)
IntStr(n) == IF n < 10 THEN <<Digits[n + 1]>> ELSE IntStr(n \div 10) \o <<Digits[(n % 10) + 1]>>

\* length of the longest run of digits that starts at offset a of s
RECURSIVE DigitRun(_, _)
DigitRun(s, a) == IF a < Len(s) /\ IsDigit(s[a + 1]) THEN 1 + DigitRun(s, a + 1) ELSE 0

\* str.find of a two-character needle from offset a: the offset, or -1
RECURSIVE Find2(_, _, _)
Find2(s, needle, a) ==
    IF a + 2 > Len(s) THEN -1
    ELSE IF Slice(s, a, a + 2) = needle THEN a
    ELSE Find2(s, needle, a + 1)

\* s.replace('SM', '')
RECURSIVE RemoveSM(_)
RemoveSM(s) ==
    LET p == Find2(s, <<"S","M">>, 0)
    IN IF p < 0 THEN s ELSE Slice(s, 0, p) \o RemoveSM(Slice(s, p + 2, Len(s)))

\* s.split(sep) for a one-character separator: the list of fields
RECURSIVE SplitOn(_, _)
SplitOn(s, sep) ==
    IF \A k \in DOMAIN s : s[k] # sep THEN <<s>>
    ELSE LET p == CHOOSE k \in DOMAIN s : s[k] = sep /\ \A j \in 1..(k - 1) : s[j] # sep
         IN <<SubSeq(s, 1, p - 1)>> \o SplitOn(SubSeq(s, p + 1, Len(s)), sep)

\* s.split(): the non-empty fields between runs of whitespace
RECURSIVE SplitWs(_)
SplitWs(s) ==
    IF \A k \in DOMAIN s : IsSpace(s[k]) THEN << >>
    ELSE IF IsSpace(s[1]) THEN SplitWs(Tail(s))
    ELSE LET n == IF \E k \in DOMAIN s : IsSpace(s[k])
                  THEN (CHOOSE k \in DOMAIN s : IsSpace(s[k]) /\ \A j \in 1..(k - 1) : ~IsSpace(s[j])) - 1
                  ELSE Len(s)
         IN <<SubSeq(s, 1, n)>> \o SplitWs(SubSeq(s, n + 1, Len(s)))

(***************************************************************************)
(* Numbers                                                                 *)
(***************************************************************************)
Abs(n) == IF n < 0 THEN -n ELSE n

RECURSIVE Gcd(_, _)
Gcd(a, b) == IF b = 0 THEN a ELSE Gcd(b, a % b)

PyInt(n) == [float |-> FALSE, num |-> n, den |-> 1]

\* the float n / d of two ints, d > 0, n >= 0
PyFloat(n, d) == LET g == Gcd(n, d) IN [float |-> TRUE, num |-> n \div g, den |-> d \div g]

\* round(x) of a float x = n / d, d > 0: to the nearest int, a tie to the even one
PyRound(n, d) ==
    LET q == n \div d
        r == n % d
    IN IF 2 * r < d THEN q
       ELSE IF 2 * r > d THEN q + 1
       ELSE IF q % 2 = 0 THEN q ELSE q + 1

\* the digits of r / d after the decimal point, r < d, for a finite expansion
RECURSIVE FracDigits(_, _)
FracDigits(r, d) ==
    IF r = 0 THEN << >>
    ELSE <<Digits[((10 * r) \div d) + 1]>> \o FracDigits((10 * r) % d, d)

\* the denominators whose quotients have a finite decimal expansion
RECURSIVE Strip(_, _)
Strip(d, p) == IF d % p = 0 THEN Strip(d \div p, p) ELSE d

FiniteDecimal(d) == Strip(Strip(d, 2), 5) = 1

\* str(v) as an f-string renders it: an int by its digits, a float by repr(),
\* which for a short finite decimal is that decimal with at least one digit
\* after the point.  Defined for the floats n / d with FiniteDecimal(d); the
\* fractions of TokenPool and VisibilityInputs are of this kind.
NumStr(v) ==
    IF ~v.float THEN IntStr(v.num)
    ELSE LET f == FracDigits(v.num % v.den, v.den)
         IN IntStr(v.num \div v.den) \o <<".">> \o (IF f = << >> THEN <<"0">> ELSE f)

\* v >= n for a number v and an int n
NumGe(v, n) == v.num >= n * v.den

(***************************************************************************)
(* Lookup tables                                                           *)
(***************************************************************************)
\* dict.get(key, default)
Get(table, key, default) == IF key \in DOMAIN table THEN table[key] ELSE default

wind_directions ==
    (<<"N">> :> <<"N","o","r","t","h">>) @@ (<<"N","N","E">> :> <<"N","o","r","t","h","-","n","o","r","t","h","e","a","s","t">>) @@ (<<"N","E">> :> <<"N","o","r","t","h","e","a","s","t">>) @@
    (<<"E","N","E">> :> <<"E","a","s","t","-","n","o","r","t","h","e","a","s","t">>) @@ (<<"E">> :> <<"E","a","s","t">>) @@ (<<"E","S","E">> :> <<"E","a","s","t","-","s","o","u","t","h","e","a","s","t">>) @@
    (<<"S","E">> :> <<"S","o","u","t","h","e","a","s","t">>) @@ (<<"S","S","E">> :> <<"S","o","u","t","h","-","s","o","u","t","h","e","a","s","t">>) @@ (<<"S">> :> <<"S","o","u","t","h">>) @@
    (<<"S","S","W">> :> <<"S","o","u","t","h","-","s","o","u","t","h","w","e","s","t">>) @@ (<<"S","W">> :> <<"S","o","u","t","h","w","e","s","t">>) @@ (<<"W","S","W">> :> <<"W","e","s","t","-","s","o","u","t","h","w","e","s","t">>) @@
    (<<"W">> :> <<"W","e","s","t">>) @@ (<<"W","N","W">> :> <<"W","e","s","t","-","n","o","r","t","h","w","e","s","t">>) @@ (<<"N","W">> :> <<"N","o","r","t","h","w","e","s","t">>) @@
    (<<"N","N","W">> :> <<"N","o","r","t","h","-","n","o","r","t","h","w","e","s","t">>)

directions ==
    << <<"N">>, <<"N","N","E">>, <<"N","E">>, <<"E","N","E">>, <<"E">>, <<"E","S","E">>, <<"S","E">>, <<"S","S","E">>,
       <<"S">>, <<"S","S","W">>, <<"S","W">>, <<"W","S","W">>, <<"W">>, <<"W","N","W">>, <<"N","W">>, <<"N","N","W">> >>

sky_conditions ==
    (<<"C","L","R">> :> <<"C","l","e","a","r"," ","s","k","i","e","s">>) @@ (<<"S","K","C">> :> <<"S","k","y"," ","c","l","e","a","r">>) @@ (<<"F","E","W">> :> <<"F","e","w"," ","c","l","o","u","d","s">>) @@
    (<<"S","C","T">> :> <<"S","c","a","t","t","e","r","e","d"," ","c","l","o","u","d","s">>) @@ (<<"B","K","N">> :> <<"B","r","o","k","e","n"," ","c","l","o","u","d","s">>) @@ (<<"O","V","C">> :> <<"O","v","e","r","c","a","s","t">>)

intensity == (<<"-">> :> <<"L","i","g","h","t"," ">>) @@ (<<"+">> :> <<"H","e","a","v","y"," ">>) @@ (<< >> :> << >>)

descriptor ==
    (<<"M","I">> :> <<"S","h","a","l","l","o","w"," ">>) @@ (<<"P","R">> :> <<"P","a","r","t","i","a","l"," ">>) @@ (<<"B","C">> :> <<"P","a","t","c","h","e","s"," ","o","f"," ">>) @@
    (<<"D","R">> :> <<"D","r","i","f","t","i","n","g"," ">>) @@ (<<"B","L">> :> <<"B","l","o","w","i","n","g"," ">>) @@ (<<"S","H">> :> <<"S","h","o","w","e","r","s"," ","o","f"," ">>) @@
    (<<"T","S">> :> <<"T","h","u","n","d","e","r","s","t","o","r","m","s"," ","w","i","t","h"," ">>) @@ (<<"F","Z">> :> <<"F","r","e","e","z","i","n","g"," ">>)

precipitation ==
    (<<"D","Z">> :> <<"d","r","i","z","z","l","e">>) @@ (<<"R","A">> :> <<"r","a","i","n">>) @@ (<<"S","N">> :> <<"s","n","o","w">>) @@
    (<<"S","G">> :> <<"s","n","o","w"," ","g","r","a","i","n","s">>) @@ (<<"I","C">> :> <<"i","c","e"," ","c","r","y","s","t","a","l","s">>) @@ (<<"P","L">> :> <<"i","c","e"," ","p","e","l","l","e","t","s">>) @@
    (<<"G","R">> :> <<"h","a","i","l">>) @@ (<<"G","S">> :> <<"s","m","a","l","l"," ","h","a","i","l">>)

obscuration ==
    (<<"B","R">> :> <<"m","i","s","t">>) @@ (<<"F","G">> :> <<"f","o","g">>) @@ (<<"F","U">> :> <<"s","m","o","k","e">>) @@
    (<<"V","A">> :> <<"v","o","l","c","a","n","i","c"," ","a","s","h">>) @@ (<<"D","U">> :> <<"d","u","s","t">>) @@ (<<"S","A">> :> <<"s","a","n","d">>) @@
    (<<"H","Z">> :> <<"h","a","z","e">>) @@ (<<"P","Y">> :> <<"s","p","r","a","y">>)

(***************************************************************************)
(* The pure methods of MetarDecoder                                        *)
(***************************************************************************)
\* a variant of CompassIndex that truncates instead of rounding to the nearest point
CompassIndexTruncated(degrees) == ((2 * degrees) \div 45) % 16

\* index = round(degrees / 22.5) % 16, with degrees / 22.5 = 2 * degrees / 45
CompassIndex(degrees) == PyRound(2 * degrees, 45) % 16

\* degrees is None or Some(d)
degrees_to_direction(degrees) ==
    IF degrees = None THEN <<"v","a","r","i","a","b","l","e">>
    ELSE LET index == CompassIndex(degrees[1])
         IN Get(wind_directions, directions[index + 1], directions[index + 1])

\* a variant of decode_visibility that tests "visibility > 10"
decode_visibility_strict(visibility) ==
    IF visibility.num > 10 * visibility.den THEN <<"1","0","+"," ","m","i","l","e","s">>
    ELSE IF NumGe(visibility, 1) THEN NumStr(visibility) \o <<" ","m","i","l","e","s">>
    ELSE NumStr(visibility) \o <<" ","m","i","l","e">>

decode_visibility(visibility) ==
    IF NumGe(visibility, 10) THEN <<"1","0","+"," ","m","i","l","e","s">>
    ELSE IF NumGe(visibility, 1) THEN NumStr(visibility) \o <<" ","m","i","l","e","s">>
    ELSE NumStr(visibility) \o <<" ","m","i","l","e">>

decode_sky_condition(condition) == Get(sky_conditions, Slice(condition, 0, 3), condition)

\* the intensity prefix: [i, result] after lines 134-140
ScanStart(phenomenon) ==
    IF 0 < Len(phenomenon) /\ phenomenon[1] \in {"-", "+"}
    THEN [i |-> 1, result |-> intensity[<<phenomenon[1]>>]]
    ELSE [i |-> 0, result |-> << >>]

\* a variant of ScanStep that gives up at a slice it does not know
ScanStepAbort(phenomenon, s) ==
    LET code == Slice(phenomenon, s.i, s.i + 2)
    IN IF code \in DOMAIN descriptor THEN [i |-> s.i + 2, result |-> s.result \o descriptor[code]]
       ELSE IF code \in DOMAIN precipitation THEN [i |-> s.i + 2, result |-> s.result \o precipitation[code]]
       ELSE IF code \in DOMAIN obscuration THEN [i |-> s.i + 2, result |-> s.result \o obscuration[code]]
       ELSE [i |-> Len(phenomenon), result |-> s.result]

\* a variant of ScanStep that skips a whole 2-character slice it does not know
ScanStepSkipTwo(phenomenon, s) ==
    LET code == Slice(phenomenon, s.i, s.i + 2)
    IN IF code \in DOMAIN descriptor THEN [i |-> s.i + 2, result |-> s.result \o descriptor[code]]
       ELSE IF code \in DOMAIN precipitation THEN [i |-> s.i + 2, result |-> s.result \o precipitation[code]]
       ELSE IF code \in DOMAIN obscuration THEN [i |-> s.i + 2, result |-> s.result \o obscuration[code]]
       ELSE [i |-> s.i + 2, result |-> s.result]

\* one iteration of the while loop of lines 143-155 from the state s = [i, result]
ScanStep(phenomenon, s) ==
    LET code == Slice(phenomenon, s.i, s.i + 2)
    IN IF code \in DOMAIN descriptor THEN [i |-> s.i + 2, result |-> s.result \o descriptor[code]]
       ELSE IF code \in DOMAIN precipitation THEN [i |-> s.i + 2, result |-> s.result \o precipitation[code]]
       ELSE IF code \in DOMAIN obscuration THEN [i |-> s.i + 2, result |-> s.result \o obscuration[code]]
       ELSE [i |-> s.i + 1, result |-> s.result]

RECURSIVE ScanLoop(_, _)
ScanLoop(phenomenon, s) ==
    IF s.i < Len(phenomenon) THEN ScanLoop(phenomenon, ScanStep(phenomenon, s)) ELSE s

\* return result or phenomenon
ScanReturn(phenomenon, s) == IF s.result # << >> THEN s.result ELSE phenomenon

decode_weather_phenomenon(phenomenon) ==
    ScanReturn(phenomenon, ScanLoop(phenomenon, ScanStart(phenomenon)))

\* a variant of celsius_to_fahrenheit that truncates with int() instead of round()
celsius_to_fahrenheit_truncated(celsius) ==
    LET n == celsius * 9 + 32 * 5
    IN IF n >= 0 THEN n \div 5 ELSE -((-n) \div 5)

\* round((celsius * 9/5) + 32): celsius * 9 is an int, / 5 a float
celsius_to_fahrenheit(celsius) == PyRound(celsius * 9 + 32 * 5, 5)

(***************************************************************************)
(* The patterns of decode_metar.  re.match anchors a pattern at the start  *)
(* of the token and accepts any text after the matched prefix.             *)
(***************************************************************************)
\* r'(\d{6})Z'
time_match(part) ==
    IF DigitRun(part, 0) = 6 /\ Slice(part, 6, 7) = <<"Z">>
    THEN [group1 |-> Slice(part, 0, 6)]
    ELSE None

\* r'(\d{3}|VRB)(\d{2,3})(G\d{2,3})?KT'.  KT and G are no digits, so the
\* speed and the gust are whole runs of 2 or 3 digits.
wind_match(part) ==
    LET d == Slice(part, 0, 3)
        n == DigitRun(part, 3)
        m == DigitRun(part, 3 + n + 1)
    IN IF ~((Len(d) = 3 /\ AllDigits(d)) \/ d = <<"V","R","B">>) \/ n \notin {2, 3} THEN None
       ELSE IF Slice(part, 3 + n, 3 + n + 2) = <<"K","T">>
            THEN [group1 |-> d, group2 |-> Slice(part, 3, 3 + n), group3 |-> None]
       ELSE IF Slice(part, 3 + n, 3 + n + 1) = <<"G">> /\ m \in {2, 3}
               /\ Slice(part, 3 + n + 1 + m, 3 + n + 1 + m + 2) = <<"K","T">>
            THEN [group1 |-> d, group2 |-> Slice(part, 3, 3 + n),
                  group3 |-> Slice(part, 3 + n, 3 + n + 1 + m)]
       ELSE None

\* r'\d+SM'
visibility_match(part) ==
    LET n == DigitRun(part, 0)
    IN n >= 1 /\ Slice(part, n, n + 2) = <<"S","M">>

\* r'\d+/\d+SM'
fraction_match(part) ==
    LET n == DigitRun(part, 0)
        m == DigitRun(part, n + 1)
    IN /\ n >= 1
       /\ Slice(part, n, n + 1) = <<"/">>
       /\ m >= 1
       /\ Slice(part, n + 1 + m, n + 1 + m + 2) = <<"S","M">>

\* r'M?\d{2}/M?\d{2}'
temperature_match(part) ==
    LET a == IF Slice(part, 0, 1) = <<"M">> THEN 1 ELSE 0
        b == IF Slice(part, a + 3, a + 4) = <<"M">> THEN a + 4 ELSE a + 3
    IN /\ DigitRun(part, a) >= 2
       /\ Slice(part, a + 2, a + 3) = <<"/">>
       /\ DigitRun(part, b) >= 2

\* r'(CLR|SKC|FEW|SCT|BKN|OVC)(\d{3})?'
sky_match(part) ==
    IF Slice(part, 0, 3) \in {<<"C","L","R">>, <<"S","K","C">>, <<"F","E","W">>, <<"S","C","T">>, <<"B","K","N">>, <<"O","V","C">>}
    THEN [group1 |-> Slice(part, 0, 3),
          group2 |-> IF DigitRun(part, 3) >= 3 THEN Slice(part, 3, 6) ELSE None]
    ELSE None

\* r'[-+]?[A-Z]{2,}'
weather_match(part) ==
    LET a == IF Slice(part, 0, 1) \in {<<"-">>, <<"+">>} THEN 1 ELSE 0
    IN Len(part) >= a + 2 /\ IsUpper(part[a + 1]) /\ IsUpper(part[a + 2])

\* r'\d{3}\d{2,3}'
wind_shape_match(part) == DigitRun(part, 0) >= 5

\* r'[A-Z]\d{4}'
station_shape_match(part) == Len(part) >= 1 /\ IsUpper(part[1]) /\ DigitRun(part, 1) >= 4

\* r'A(\d{4})'
pressure_match(part) ==
    IF Slice(part, 0, 1) = <<"A">> /\ DigitRun(part, 1) >= 4
    THEN [group1 |-> Slice(part, 1, 5)]
    ELSE None

(***************************************************************************)
(* The classifiers of the token loop.  Each takes the result record and    *)
(* the token and yields [result, exc]: the record after the classifier and *)
(* the exception it raised, None when it returned normally.                *)
(***************************************************************************)
Ok(r) == [result |-> r, exc |-> None]

Raise(r, e) == [result |-> r, exc |-> e]

\* lines 213-220
TimeText(time_str) ==
    LET day == Slice(time_str, 0, 2)
        hour == Slice(time_str, 2, 4)
        minute == Slice(time_str, 4, 6)
    IN day \o <<"t","h"," ","a","t"," ">> \o hour \o <<":">> \o minute \o <<" ","U","T","C">>

\* a variant of WindObservation without the speed == 0 branch
WindObservationNoCalm(direction, speed, gust) ==
    LET wind_direction == IF direction = <<"V","R","B">> THEN None ELSE Some(ParseDigits(direction))
        dir_text == degrees_to_direction(wind_direction)
    IN [description |-> <<"F","r","o","m"," ","t","h","e"," ">> \o StrLower(dir_text),
        speed |-> speed,
        direction |-> dir_text,
        gust |-> IF gust # None THEN Some(ParseDigits(Slice(gust, 1, Len(gust)))) ELSE None]

\* lines 226-246: the dict stored in result["wind"]
WindObservation(direction, speed, gust) ==
    IF speed = 0
    THEN [description |-> <<"C","a","l","m">>, speed |-> 0, direction |-> None, gust |-> None]
    ELSE LET wind_direction == IF direction = <<"V","R","B">> THEN None ELSE Some(ParseDigits(direction))
             dir_text == degrees_to_direction(wind_direction)
         IN [description |-> <<"F","r","o","m"," ","t","h","e"," ">> \o StrLower(dir_text),
             speed |-> speed,
             direction |-> dir_text,
             gust |-> IF gust # None THEN Some(ParseDigits(Slice(gust, 1, Len(gust)))) ELSE None]

\* lines 224-246
WindClassifier(r, part) ==
    LET m == wind_match(part)
    IN IF m = None THEN Ok(r)
       ELSE Ok([r EXCEPT !.wind = WindObservation(m.group1, ParseDigits(m.group2), m.group3)])

VisibilityObservation(visibility) ==
    [value |-> visibility, description |-> decode_visibility(visibility)]

\* lines 249-264
VisibilityClassifier(r, part) ==
    IF visibility_match(part)
    THEN LET vis_num == Slice(part, 0, DigitRun(part, 0))
         IN Ok([r EXCEPT !.visibility = VisibilityObservation(PyInt(ParseDigits(vis_num)))])
    ELSE IF fraction_match(part)
    THEN LET fraction == RemoveSM(part)
             fields == SplitOn(fraction, "/")
         IN IF Len(fields) # 2 \/ ~IntOk(fields[1]) \/ ~IntOk(fields[2])
            THEN Raise(r, <<"V","a","l","u","e","E","r","r","o","r">>)
            ELSE LET num == ParseDigits(fields[1])
                     denom == ParseDigits(fields[2])
                 IN IF denom = 0 THEN Raise(r, <<"Z","e","r","o","D","i","v","i","s","i","o","n","E","r","r","o","r">>)
                    ELSE Ok([r EXCEPT !.visibility = VisibilityObservation(PyFloat(num, denom))])
    ELSE Ok(r)

\* lines 273-274: -int(s[1:]) if s.startswith('M') else int(s)
SignedOk(s) == IF StartsWith(s, <<"M">>) THEN IntOk(Slice(s, 1, Len(s))) ELSE IntOk(s)

\* a variant of SignedValue that drops the sign of an M group
SignedValueUnsigned(s) ==
    IF StartsWith(s, <<"M">>) THEN ParseDigits(Slice(s, 1, Len(s))) ELSE ParseDigits(s)

SignedValue(s) ==
    IF StartsWith(s, <<"M">>) THEN -ParseDigits(Slice(s, 1, Len(s))) ELSE ParseDigits(s)

TemperatureObservation(c) == [celsius |-> c, fahrenheit |-> celsius_to_fahrenheit(c)]

\* lines 267-283
TemperatureClassifier(r, part) ==
    IF ~temperature_match(part) THEN Ok(r)
    ELSE LET temp_dew == SplitOn(part, "/")
             temp_str == temp_dew[1]
             dew_str == temp_dew[2]
         IN IF ~SignedOk(temp_str) \/ ~SignedOk(dew_str) THEN Raise(r, <<"V","a","l","u","e","E","r","r","o","r">>)
            ELSE Ok([r EXCEPT !.temperature = TemperatureObservation(SignedValue(temp_str)),
                              !.dewpoint = TemperatureObservation(SignedValue(dew_str))])

\* lines 288-295
SkyLayer(condition, height) ==
    [condition |-> condition,
     description |-> decode_sky_condition(condition),
     height |-> IF height # None THEN Some(ParseDigits(height) * 100) ELSE None]

\* a variant of SkyClassifier that inserts the layer at the front of the list
SkyClassifierPrepend(r, part) ==
    LET m == sky_match(part)
    IN IF m = None THEN Ok(r)
       ELSE Ok([r EXCEPT !.sky_conditions = <<SkyLayer(m.group1, m.group2)>> \o @])

\* lines 286-296
SkyClassifier(r, part) ==
    LET m == sky_match(part)
    IN IF m = None THEN Ok(r)
       ELSE Ok([r EXCEPT !.sky_conditions = Append(@, SkyLayer(m.group1, m.group2))])

\* lines 299-306
WeatherClassifier(r, part) ==
    IF /\ weather_match(part)
       /\ part \notin {<<"A","U","T","O">>, <<"C","O","R">>, <<"R","M","K">>}
       /\ ~wind_shape_match(part)
       /\ ~station_shape_match(part)
    THEN Ok([r EXCEPT !.weather_phenomena =
                Append(@, [code |-> part, description |-> decode_weather_phenomenon(part)])])
    ELSE Ok(r)

\* f"{x:.2f}" of the float x = n / 100
TwoDecimals(n) ==
    IntStr(n \div 100) \o <<".">> \o <<Digits[((n % 100) \div 10) + 1], Digits[(n % 10) + 1]>>

\* lines 311-316
PressureObservation(pressure_raw) ==
    LET n == ParseDigits(pressure_raw)
    IN [inches_hg |-> PyFloat(n, 100), description |-> TwoDecimals(n) \o <<" ","i","n","c","h","e","s"," ","H","g">>]

\* a variant of PressureClassifier that keeps a pressure already set
PressureClassifierKeepFirst(r, part) ==
    LET m == pressure_match(part)
    IN IF m = None \/ r.pressure # None THEN Ok(r)
       ELSE Ok([r EXCEPT !.pressure = PressureObservation(m.group1)])

\* lines 309-316
PressureClassifier(r, part) ==
    LET m == pressure_match(part)
    IN IF m = None THEN Ok(r)
       ELSE Ok([r EXCEPT !.pressure = PressureObservation(m.group1)])

\* a variant of ProcessPart whose time branch stores a fresh record
ProcessPartTimeResets(r, part) ==
    LET tm == time_match(part)
        Visibility(o) == IF o.exc # None THEN o ELSE VisibilityClassifier(o.result, part)
        Temperature(o) == IF o.exc # None THEN o ELSE TemperatureClassifier(o.result, part)
        Sky(o) == IF o.exc # None THEN o ELSE SkyClassifier(o.result, part)
        Weather(o) == IF o.exc # None THEN o ELSE WeatherClassifier(o.result, part)
        Pressure(o) == IF o.exc # None THEN o ELSE PressureClassifier(o.result, part)
    IN IF tm # None
       THEN Ok([wind |-> None, visibility |-> None, temperature |-> None, dewpoint |-> None,
                sky_conditions |-> << >>, weather_phenomena |-> << >>, pressure |-> None,
                time |-> TimeText(tm.group1)])
       ELSE Pressure(Weather(Sky(Temperature(Visibility(WindClassifier(r, part))))))

\* the body of the for loop, lines 211-316, for one token: a time token ends
\* the iteration (continue); otherwise the classifiers run in order, each only
\* when the one before it returned
ProcessPart(r, part) ==
    LET tm == time_match(part)
        Visibility(o) == IF o.exc # None THEN o ELSE VisibilityClassifier(o.result, part)
        Temperature(o) == IF o.exc # None THEN o ELSE TemperatureClassifier(o.result, part)
        Sky(o) == IF o.exc # None THEN o ELSE SkyClassifier(o.result, part)
        Weather(o) == IF o.exc # None THEN o ELSE WeatherClassifier(o.result, part)
        Pressure(o) == IF o.exc # None THEN o ELSE PressureClassifier(o.result, part)
    IN IF tm # None THEN Ok([r EXCEPT !.time = TimeText(tm.group1)])
       ELSE Pressure(Weather(Sky(Temperature(Visibility(WindClassifier(r, part))))))

(***************************************************************************)
(* Bounds and inputs                                                       *)
(***************************************************************************)
\* the longest report, in tokens
MaxTokens == 2

\* the largest direction of degrees_to_direction: the 3-digit groups
MaxDegrees == 999

\* the largest magnitude of a temperature: the 2-digit groups
MaxCelsius == 99

\* the int and float arguments of decode_visibility
MaxMiles == 15

MaxNumerator == 24

MaxDenominator == 8

\* the longest argument of decode_weather_phenomenon
MaxPhenLen == 4

\* the tokens the reports are made of
TokenPool ==
    { <<"1","6","1","2","5","1","Z">>,
      <<"2","8","0","0","8","K","T">>, <<"2","5","0","1","5","G","2","5","K","T">>, <<"0","0","0","0","0","K","T">>, <<"2","7","0","0","0","G","1","5","K","T">>, <<"V","R","B","0","5","K","T">>, <<"V","R","B","0","0","K","T">>,
      <<"1","0","S","M">>, <<"1","S","M">>, <<"1","/","2","S","M">>, <<"3","/","4","S","M">>, <<"2","/","2","S","M">>, <<"1","/","0","S","M">>, <<"1","/","2","S","M","X">>, <<"1","2","/","5","0","S","M">>,
      <<"2","2","/","1","3">>, <<"M","0","5","/","M","1","2">>, <<"2","5","/","M","1","0">>, <<"M","0","1","/","0","2">>, <<"2","2","/","1","3","X">>, <<"2","2","/","1","3","/","0","5">>,
      <<"C","L","R">>, <<"B","K","N","0","0","8">>, <<"O","V","C","0","1","5">>, <<"S","C","T","0","8">>,
      <<"+","T","S","R","A">>, <<"F","G">>, <<"R","M","K">>, <<"A","U","T","O">>, <<"C","O","R">>, <<"K","J","F","K">>,
      <<"A","3","0","1","2">>, <<"A","3","0","0","0">>, <<"A","2","9","9","5","X">>,
      <<"A","O","2">> }

\* ' '.join(tokens)
RECURSIVE Join(_)
Join(tokens) ==
    IF Len(tokens) = 0 THEN << >>
    ELSE IF Len(tokens) = 1 THEN tokens[1]
    ELSE tokens[1] \o <<" ">> \o Join(Tail(tokens))

\* the arguments of decode_metar that hold no token: None, '' and blanks
BlankInputs == {None, Some(<< >>), Some(<<" ">>), Some(<<" "," ">>)}

\* a report with whitespace before, between and after its tokens
Padded(t) == <<" ">> \o t \o <<" "," ">> \o t \o <<" ">>

DegreesInputs == {None} \cup {Some(d) : d \in 0..MaxDegrees}

CelsiusInputs == (-MaxCelsius..MaxCelsius) \cup {100}

VisibilityInputs ==
    {PyInt(n) : n \in 0..MaxMiles}
        \cup {PyFloat(n, d) : n \in 0..MaxNumerator,
                              d \in {k \in 1..MaxDenominator : FiniteDecimal(k)}}

PhenAlphabet == {"-", "+", "R", "A", "T", "S", "X"}

PhenomenonInputs ==
    UNION {[1..n -> PhenAlphabet] : n \in 0..MaxPhenLen}
        \cup {<<"F","G">>, <<"B","R">>, <<"H","Z">>, <<"S","N">>, <<"-","S","N">>, <<"+","T","S","R","A">>, <<"-","S","H","R","A">>, <<"F","Z","F","G">>, <<"V","C","S","H">>}

SkyInputs == {<<"C","L","R">>, <<"S","K","C">>, <<"F","E","W">>, <<"S","C","T">>, <<"B","K","N">>, <<"O","V","C">>, <<"X","X","X">>, <<"B","K","N","0","0","8">>, <<"V","V">>}

\* the codes fetch_metar is called with directly
FetchInputs == { <<"K","J","F","K">>, <<"k","j","f","k">>, <<"X","X","X","X">>, <<"k","T","i","G">> }

\* the form of the POST: no airport_code field, or a field with this text
FormInputs ==
    { None, Some(<< >>), Some(<<" "," "," ">>), Some(<<"J","F","K">>), Some(<<"K","J","F","K","A">>), Some(<<"K","J","F","K">>),
      Some(<<"k","j","f","k">>), Some(<<" ","k","t","i","g"," ">>), Some(<<"X","X","X","X">>), Some(<<"k"," ","j","f">>), Some(<<" "," ","j","f","k">>),
      Some(<<"1","2","a","4">>) }

(***************************************************************************)
(* The state machine: one call of one method                               *)
(***************************************************************************)
\* lines 199-208
InitialResult ==
    [wind |-> None, visibility |-> None, temperature |-> None, dewpoint |-> None,
     sky_conditions |-> << >>, weather_phenomena |-> << >>, pressure |-> None, time |-> None]

\* line 193
ErrorResult == [error |-> <<"N","o"," ","M","E","T","A","R"," ","d","a","t","a"," ","a","v","a","i","l","a","b","l","e">>]

\* a variant of IsFalsy that tests "metar_text is None"
IsFalsyNoneOnly(metar_text) == metar_text = None

\* line 192: not metar_text, for None and for a str
IsFalsy(metar_text) == metar_text = None \/ Len(metar_text[1]) = 0

\* the call: a method and its argument.  The arguments of decode_metar are
\* the blank inputs, the reports of 1..MaxTokens tokens of TokenPool joined by
\* single spaces, and padded reports.
Init ==
    /\ \/ /\ op = "decode_metar"
          /\ \/ arg \in BlankInputs
             \/ \E n \in 1..MaxTokens : \E ts \in [1..n -> TokenPool] : arg = Some(Join(ts))
             \/ \E t \in TokenPool : arg = Some(Padded(t))
       \/ op = "degrees_to_direction" /\ arg \in DegreesInputs
       \/ op = "celsius_to_fahrenheit" /\ arg \in CelsiusInputs
       \/ op = "decode_visibility" /\ arg \in VisibilityInputs
       \/ op = "decode_weather_phenomenon" /\ arg \in PhenomenonInputs
       \/ op = "decode_sky_condition" /\ arg \in SkyInputs
       \/ op = "fetch_metar" /\ arg \in FetchInputs
       \/ op = "get_metar" /\ arg \in FormInputs
    /\ pc = "start"
    /\ parts = << >>
    /\ idx = 0
    /\ result = None
    /\ ret = None
    /\ exc = None
    /\ scan = None
    /\ iterations = 0
    /\ airport_code = None
    /\ fetched = None
    /\ network = None
    /\ fetch_calls = << >>
    /\ http_calls = << >>
    /\ decode_calls = << >>
    /\ threads = << >>
    /\ decoders = << >>

\* lines 192-208: the empty-input check, the split and the empty record
DecodeMetarStart ==
    /\ op = "decode_metar"
    /\ pc = "start"
    /\ IF IsFalsy(arg)
       THEN /\ ret' = ErrorResult
            /\ pc' = "done"
            /\ UNCHANGED <<parts, result>>
       ELSE /\ parts' = SplitWs(arg[1])
            /\ result' = InitialResult
            /\ pc' = "loop"
            /\ UNCHANGED ret
    /\ UNCHANGED <<op, arg, idx, exc, scanvars, svcvars, concvars>>

\* lines 211-316: one iteration of the for loop; an exception leaves the call
DecodeMetarPart ==
    /\ op = "decode_metar"
    /\ pc = "loop"
    /\ idx < Len(parts)
    /\ LET o == ProcessPart(result, parts[idx + 1])
       IN /\ result' = o.result
          /\ exc' = o.exc
          /\ IF o.exc # None
             THEN pc' = "raised" /\ idx' = idx
             ELSE pc' = "loop" /\ idx' = idx + 1
    /\ UNCHANGED <<op, arg, parts, ret, scanvars, svcvars, concvars>>

\* line 318
DecodeMetarReturn ==
    /\ op = "decode_metar"
    /\ pc = "loop"
    /\ idx = Len(parts)
    /\ ret' = result
    /\ pc' = "done"
    /\ UNCHANGED <<op, arg, parts, idx, result, exc, scanvars, svcvars, concvars>>

Return(value) ==
    /\ pc = "start"
    /\ ret' = value
    /\ pc' = "done"
    /\ UNCHANGED <<op, arg, parts, idx, result, exc, scanvars, svcvars, concvars>>

CallDegreesToDirection == op = "degrees_to_direction" /\ Return(degrees_to_direction(arg))

CallCelsiusToFahrenheit == op = "celsius_to_fahrenheit" /\ Return(celsius_to_fahrenheit(arg))

CallDecodeVisibility == op = "decode_visibility" /\ Return(decode_visibility(arg))

\* lines 134-140: result = "", i = 0 and the intensity character
ScanBegin ==
    /\ op = "decode_weather_phenomenon"
    /\ pc = "start"
    /\ scan' = ScanStart(arg)
    /\ iterations' = 0
    /\ pc' = "scan"
    /\ UNCHANGED <<op, arg, parts, idx, result, ret, exc, svcvars, concvars>>

\* lines 143-155: one iteration of the while loop
ScanIterate ==
    /\ op = "decode_weather_phenomenon"
    /\ pc = "scan"
    /\ scan.i < Len(arg)
    /\ scan' = ScanStep(arg, scan)
    /\ iterations' = iterations + 1
    /\ UNCHANGED <<op, arg, pc, parts, idx, result, ret, exc, svcvars, concvars>>

\* line 157: the loop condition fails, return result or phenomenon
ScanExit ==
    /\ op = "decode_weather_phenomenon"
    /\ pc = "scan"
    /\ ~(scan.i < Len(arg))
    /\ ret' = ScanReturn(arg, scan)
    /\ pc' = "done"
    /\ UNCHANGED <<op, arg, parts, idx, result, exc, scanvars, svcvars, concvars>>

CallDecodeWeatherPhenomenon == ScanBegin \/ ScanIterate \/ ScanExit

CallDecodeSkyCondition == op = "decode_sky_condition" /\ Return(decode_sky_condition(arg))

(***************************************************************************)
(* The service: fetch_metar and the route get_metar                        *)
(***************************************************************************)
\* the complete run of decode_metar on a token list: the for loop
RECURSIVE DecodeParts(_, _, _)
DecodeParts(r, ps, k) ==
    IF k > Len(ps) THEN Ok(r)
    ELSE LET o == ProcessPart(r, ps[k])
         IN IF o.exc # None THEN o ELSE DecodeParts(o.result, ps, k + 1)

\* decode_metar as one call: [result, exc], result being the return value
decode_metar(metar_text) ==
    IF IsFalsy(metar_text) THEN Ok(ErrorResult)
    ELSE DecodeParts(InitialResult, SplitWs(metar_text[1]), 1)

\* line 340: the timeout of the request, in seconds
RequestTimeout == 10

\* line 337
MetarUrl(code) == <<"h","t","t","p","s",":","/","/","a","v","i","a","t","i","o","n","w","e","a","t","h","e","r",".","g","o","v","/","a","p","i","/","d","a","t","a","/","m","e","t","a","r","?","i","d","s","=">> \o code

\* what the network does to one request: requests.get raises a
\* RequestException (no connection, timeout), raise_for_status raises one
\* (HTTPError), or the response carries a body
NetworkOutcomes ==
    { [kind |-> "get_raises", message |-> <<"C","o","n","n","e","c","t","i","o","n"," ","t","i","m","e","o","u","t">>],
      [kind |-> "get_raises", message |-> << >>],
      [kind |-> "status_raises", message |-> <<"4","0","4"," ","C","l","i","e","n","t"," ","E","r","r","o","r">>],
      [kind |-> "body", text |-> << >>],
      [kind |-> "body", text |-> <<" "," "," ">>],
      [kind |-> "body", text |-> <<"M","E","T","A","R"," ","K","J","F","K"," ","1","6","1","2","5","1","Z"," ","2","8","0","0","8","K","T"," ","1","0","S","M"," ","C","L","R"," ","2","2","/","1","3"," ","A","3","0","1","2">>],
      [kind |-> "body", text |-> <<" ","K","L","A","X"," ","2","5","0","1","5","G","2","5","K","T"," ","3","S","M"," ","+","T","S","R","A"," ","B","K","N","0","0","8"," ">>],
      [kind |-> "body", text |-> <<"K","O","R","D"," ","V","R","B","0","5","K","T"," ","1","/","0","S","M"," ","F","G">>] }

\* a variant of fetch_metar that returns the body without the emptiness check
fetch_metar_unchecked(code, outcome) ==
    [request |-> [url |-> MetarUrl(StrUpper(code)), timeout |-> RequestTimeout],
     value |-> IF outcome.kind = "body"
               THEN <<StrStrip(outcome.text), None>>
               ELSE <<None, <<"E","r","r","o","r"," ","f","e","t","c","h","i","n","g"," ","M","E","T","A","R"," ","d","a","t","a",":"," ">> \o outcome.message>>]

\* lines 335-350: the request made and the pair returned
fetch_metar(code, outcome) ==
    [request |-> [url |-> MetarUrl(StrUpper(code)), timeout |-> RequestTimeout],
     value |-> IF outcome.kind = "body"
               THEN LET metar_data == StrStrip(outcome.text)
                    IN IF Len(metar_data) = 0
                       THEN <<None, <<"N","o"," ","M","E","T","A","R"," ","d","a","t","a"," ","f","o","u","n","d"," ","f","o","r"," ","t","h","i","s"," ","a","i","r","p","o","r","t"," ","c","o","d","e">>>>
                       ELSE <<metar_data, None>>
               ELSE <<None, <<"E","r","r","o","r"," ","f","e","t","c","h","i","n","g"," ","M","E","T","A","R"," ","d","a","t","a",":"," ">> \o outcome.message>>]

\* a variant of FormCode that neither strips nor uppercases
FormCodeRaw(form) == IF form = None THEN << >> ELSE form[1]

\* line 383: request.form.get('airport_code', '').strip().upper()
FormCode(form) == StrUpper(StrStrip(IF form = None THEN << >> ELSE form[1]))

CallFetchMetar ==
    /\ op = "fetch_metar"
    /\ pc = "start"
    /\ \E outcome \in NetworkOutcomes :
          LET f == fetch_metar(arg, outcome)
          IN /\ http_calls' = Append(http_calls, f.request)
             /\ network' = outcome
             /\ ret' = f.value
    /\ pc' = "done"
    /\ UNCHANGED <<op, arg, parts, idx, result, exc, scanvars, concvars>>
    /\ UNCHANGED <<airport_code, fetched, fetch_calls, decode_calls>>

\* lines 383-390: the code is normalised and validated
GetMetarValidate ==
    /\ op = "get_metar"
    /\ pc = "start"
    /\ airport_code' = FormCode(arg)
    /\ IF Len(airport_code') = 0
       THEN /\ ret' = [error |-> <<"P","l","e","a","s","e"," ","e","n","t","e","r"," ","a","n"," ","a","i","r","p","o","r","t"," ","c","o","d","e">>]
            /\ pc' = "done"
       ELSE IF Len(airport_code') # 4
       THEN /\ ret' = [error |-> <<"A","i","r","p","o","r","t"," ","c","o","d","e"," ","m","u","s","t"," ","b","e"," ","4"," ","c","h","a","r","a","c","t","e","r","s"," ","(","e",".","g",".",","," ","K","T","I","G",")">>]
            /\ pc' = "done"
       ELSE /\ pc' = "fetch"
            /\ UNCHANGED ret
    /\ UNCHANGED <<op, arg, parts, idx, result, exc, scanvars, concvars>>
    /\ UNCHANGED <<fetched, network, fetch_calls, http_calls, decode_calls>>

\* line 393: the call of fetch_metar
GetMetarFetch ==
    /\ op = "get_metar"
    /\ pc = "fetch"
    /\ \E outcome \in NetworkOutcomes :
          LET f == fetch_metar(airport_code, outcome)
          IN /\ http_calls' = Append(http_calls, f.request)
             /\ network' = outcome
             /\ fetched' = f.value
    /\ fetch_calls' = Append(fetch_calls, airport_code)
    /\ pc' = "fetched"
    /\ UNCHANGED <<op, arg, parts, idx, result, ret, exc, scanvars, concvars>>
    /\ UNCHANGED <<airport_code, decode_calls>>

\* lines 395-407: the error response, or the decoding and the response; an
\* exception of decode_metar leaves the handler
GetMetarRespond ==
    /\ op = "get_metar"
    /\ pc = "fetched"
    /\ LET metar_raw == fetched[1]
           error == fetched[2]
       IN IF Len(error) # 0
          THEN /\ ret' = [error |-> error]
               /\ pc' = "done"
               /\ UNCHANGED <<exc, decode_calls>>
          ELSE LET o == decode_metar(Some(metar_raw))
               IN /\ decode_calls' = Append(decode_calls, metar_raw)
                  /\ exc' = o.exc
                  /\ IF o.exc # None
                     THEN pc' = "raised" /\ UNCHANGED ret
                     ELSE /\ pc' = "done"
                          /\ ret' = [airport_code |-> airport_code,
                                     raw_metar |-> metar_raw,
                                     decoded_data |-> o.result]
    /\ UNCHANGED <<op, arg, parts, idx, result, scanvars, concvars>>
    /\ UNCHANGED <<airport_code, fetched, network, fetch_calls, http_calls>>

Next ==
    \/ CallFetchMetar
    \/ GetMetarValidate
    \/ GetMetarFetch
    \/ GetMetarRespond
    \/ DecodeMetarStart
    \/ DecodeMetarPart
    \/ DecodeMetarReturn
    \/ CallDegreesToDirection
    \/ CallCelsiusToFahrenheit
    \/ CallDecodeVisibility
    \/ CallDecodeWeatherPhenomenon
    \/ CallDecodeSkyCondition

Spec == Init /\ [][Next]_vars

\* the position of a call of decode_weather_phenomenon: every step changes it
position == <<pc, iterations>>

\* the calls of decode_weather_phenomenon alone.  A call that can take a
\* step takes it: the interpreter runs the call, which waits for nothing,
\* until it returns.
ScanInit == Init /\ op = "decode_weather_phenomenon"

ScanSpec ==
    /\ ScanInit
    /\ [][CallDecodeWeatherPhenomenon]_vars
    /\ WF_position(CallDecodeWeatherPhenomenon)

(***************************************************************************)
(* Concurrent invocations of decode_metar                                  *)
(***************************************************************************)
\* the longest report of a concurrent invocation, in tokens
MaxConcTokens == 2

Threads == {1, 2}

\* the tokens of the concurrent reports
ConcPool == { <<"2","8","0","0","8","K","T">>, <<"1","/","0","S","M">>, <<"B","K","N","0","0","8">> }

ConcInputs ==
    {None, Some(<< >>)}
        \cup {Some(Join(ts)) : ts \in UNION {[1..n -> ConcPool] : n \in 1..MaxConcTokens}}

\* the frame of a call before its first step: the decoder it is called on
\* and its argument
Frame(self, metar_text) ==
    [self |-> self, arg |-> metar_text, pc |-> "start", parts |-> << >>, idx |-> 0,
     result |-> None, ret |-> None, exc |-> None]

\* a variant of Local in which the record is kept on the decoder instance
LocalOfDecoder(t) == threads[t].self

\* lines 196-208: parts and result are locals of the call: the frame that
\* holds those of invocation t is its own
Local(t) == t

\* two invocations, on one decoder or on two; lines 30-39 made the decoders
ConcInit ==
    /\ op = "threads"
    /\ arg = None
    /\ pc = "threads"
    /\ parts = << >>
    /\ idx = 0
    /\ result = None
    /\ ret = None
    /\ exc = None
    /\ scan = None
    /\ iterations = 0
    /\ airport_code = None
    /\ fetched = None
    /\ network = None
    /\ fetch_calls = << >>
    /\ http_calls = << >>
    /\ decode_calls = << >>
    /\ decoders = [d \in Threads |-> wind_directions]
    /\ \E a \in ConcInputs, b \in ConcInputs, d \in Threads :
          threads = [t \in Threads |-> IF t = 1 THEN Frame(1, a) ELSE Frame(d, b)]

\* lines 192-208 in invocation t
ThreadStart(t) ==
    /\ threads[t].pc = "start"
    /\ threads' =
          IF IsFalsy(threads[t].arg)
          THEN [threads EXCEPT ![t].ret = ErrorResult, ![t].pc = "done"]
          ELSE [[threads EXCEPT ![t].parts = SplitWs(threads[t].arg[1]), ![t].pc = "loop"]
                    EXCEPT ![Local(t)].result = InitialResult]
    /\ UNCHANGED <<callvars, scanvars, svcvars, decoders>>

\* lines 211-316 in invocation t: one iteration of the for loop
ThreadPart(t) ==
    /\ threads[t].pc = "loop"
    /\ threads[t].idx < Len(threads[t].parts)
    /\ LET o == ProcessPart(threads[Local(t)].result, threads[t].parts[threads[t].idx + 1])
       IN threads' =
             IF o.exc # None
             THEN [[threads EXCEPT ![t].exc = o.exc, ![t].pc = "raised"]
                      EXCEPT ![Local(t)].result = o.result]
             ELSE [[threads EXCEPT ![t].idx = @ + 1]
                      EXCEPT ![Local(t)].result = o.result]
    /\ UNCHANGED <<callvars, scanvars, svcvars, decoders>>

\* line 318 in invocation t
ThreadReturn(t) ==
    /\ threads[t].pc = "loop"
    /\ threads[t].idx = Len(threads[t].parts)
    /\ threads' = [threads EXCEPT ![t].ret = threads[Local(t)].result, ![t].pc = "done"]
    /\ UNCHANGED <<callvars, scanvars, svcvars, decoders>>

ConcNext == \E t \in Threads : ThreadStart(t) \/ ThreadPart(t) \/ ThreadReturn(t)

ConcSpec == ConcInit /\ [][ConcNext]_vars

(***************************************************************************)
(* Properties                                                              *)
(***************************************************************************)
ReportFields ==
    {"wind", "visibility", "temperature", "dewpoint", "sky_conditions",
     "weather_phenomena", "pressure", "time"}

\* the call is in the token loop or has returned from it
InLoop == op = "decode_metar" /\ pc \in {"loop", "done"} /\ result # None

\* the token the loop handled last
Handled(token) == InLoop /\ idx >= 1 /\ parts[idx] = token

\* C1: decode_metar never raises for a non-empty input: every token sequence
\* is decoded to a record, a token that cannot be decoded is skipped.
\* The code raises on a fractional visibility with denominator 0 and on a
\* temperature or fraction shape followed by extra characters.
C1_NeverRaises == op = "decode_metar" => (pc # "raised" /\ exc = None)

\* C2: decode_metar of "" or None returns exactly {error: 'No METAR data
\* available'}; for every other input the result has the eight report
\* fields and no 'error' key.
C2_EmptyInputError ==
    (op = "decode_metar" /\ pc = "done") =>
        IF arg = None \/ arg = Some(<< >>)
        THEN DOMAIN ret = {"error"} /\ ret.error = <<"N","o"," ","M","E","T","A","R"," ","d","a","t","a"," ","a","v","a","i","l","a","b","l","e">>
        ELSE DOMAIN ret = ReportFields

C2_Witness == op = "decode_metar" /\ pc = "done" /\ arg = Some(<< >>) /\ DOMAIN ret = {"error"}

\* C3: in every state of the token loop, a wind of speed 0 has no direction,
\* no gust and the description 'Calm'; a wind of another speed is described
\* as 'From the ' + lowercase(direction).
C3_WindInvariant ==
    (op = "decode_metar" /\ result # None /\ result.wind # None) =>
        LET w == result.wind
        IN /\ w.speed = 0 => (w.direction = None /\ w.gust = None /\ w.description = <<"C","a","l","m">>)
           /\ w.speed # 0 => w.description = <<"F","r","o","m"," ","t","h","e"," ">> \o StrLower(w.direction)

C3_Witness ==
    /\ Handled(<<"2","7","0","0","0","G","1","5","K","T">>)
    /\ result.wind = [description |-> <<"C","a","l","m">>, speed |-> 0, direction |-> None, gust |-> None]

\* the full name of entry k mod 16 of the 16-point table
C4_PointName(k) == wind_directions[directions[(k % 16) + 1]]

\* C4: for d in 0..MaxDegrees, degrees_to_direction(d) is the name of the
\* compass point nearest to d (point k is at 22.5 * k degrees), no d is
\* halfway between two points, d mod 360 gives the same name, and None gives
\* 'variable'.
C4_Direction ==
    (op = "degrees_to_direction" /\ pc = "done") =>
        IF arg = None THEN ret = <<"v","a","r","i","a","b","l","e">>
        ELSE LET d == arg[1]
             IN /\ \E k \in 0..((2 * d) \div 45 + 1) :
                      /\ 2 * Abs(2 * d - 45 * k) < 45
                      /\ ret = C4_PointName(k)
                /\ \A k \in 0..((2 * d) \div 45 + 1) : 2 * Abs(2 * d - 45 * k) # 45
                /\ ret = degrees_to_direction(Some(d % 360))
                /\ d \in {0, 360} => ret = <<"N","o","r","t","h">>
                /\ d = 90 => ret = <<"E","a","s","t">>
                /\ d = 180 => ret = <<"S","o","u","t","h">>
                /\ d = 270 => ret = <<"W","e","s","t">>
                /\ d = 45 => ret = <<"N","o","r","t","h","e","a","s","t">>
                /\ d = 225 => ret = <<"S","o","u","t","h","w","e","s","t">>

C4_Witness ==
    op = "degrees_to_direction" /\ pc = "done" /\ arg = Some(360) /\ ret = <<"N","o","r","t","h">>

\* C5: for c in -MaxCelsius..MaxCelsius (and 100), celsius_to_fahrenheit(c)
\* is the integer nearest to 9c/5 + 32, which is never halfway between two
\* integers, and is exact when 9c is divisible by 5.
C5_Fahrenheit ==
    (op = "celsius_to_fahrenheit" /\ pc = "done") =>
        LET c == arg
            exact5 == 9 * c + 160
        IN /\ 2 * Abs(5 * ret - exact5) < 5
           /\ (2 * exact5) % 10 # 5
           /\ (9 * c) % 5 = 0 => 5 * ret = exact5
           /\ c = 0 => ret = 32
           /\ c = 100 => ret = 212
           /\ c = -40 => ret = -40
           /\ c = 20 => ret = 68
           /\ c = -10 => ret = 14

C5_Witness == op = "celsius_to_fahrenheit" /\ pc = "done" /\ arg = -5 /\ ret = 23

\* the number a string of two digits denotes
C6_TwoDigits(s) == CHOOSE n \in 0..99 : s = <<Digits[(n \div 10) + 1], Digits[(n % 10) + 1]>>

\* the shapes tt/dd, Mtt/dd, tt/Mdd and Mtt/Mdd, as [ok, temp, dew]
C6_Shape(t) ==
    LET m1 == IF Len(t) >= 1 /\ t[1] = "M" THEN 1 ELSE 0
        m2 == IF Len(t) >= m1 + 4 /\ t[m1 + 4] = "M" THEN 1 ELSE 0
        tt == SubSeq(t, m1 + 1, m1 + 2)
        dd == SubSeq(t, m1 + m2 + 4, m1 + m2 + 5)
    IN IF /\ Len(t) = m1 + m2 + 5
          /\ t[m1 + 3] = "/"
          /\ AllDigits(tt)
          /\ AllDigits(dd)
       THEN [ok |-> TRUE,
             temp |-> IF m1 = 1 THEN -C6_TwoDigits(tt) ELSE C6_TwoDigits(tt),
             dew |-> IF m2 = 1 THEN -C6_TwoDigits(dd) ELSE C6_TwoDigits(dd)]
       ELSE [ok |-> FALSE, temp |-> 0, dew |-> 0]

\* C6: in every state of the token loop temperature is present exactly when
\* dewpoint is; after a token (M)tt/(M)dd temperature.celsius is tt, negated
\* exactly when the first half starts with M, dewpoint.celsius is dd, negated
\* exactly when the second half starts with M, and each fahrenheit is
\* celsius_to_fahrenheit(celsius).
C6_TemperatureDewpoint ==
    (op = "decode_metar" /\ result # None) =>
        /\ result.temperature = None <=> result.dewpoint = None
        /\ result.temperature # None =>
              /\ result.temperature.fahrenheit = celsius_to_fahrenheit(result.temperature.celsius)
              /\ result.dewpoint.fahrenheit = celsius_to_fahrenheit(result.dewpoint.celsius)
        /\ (InLoop /\ idx >= 1 /\ C6_Shape(parts[idx]).ok) =>
              /\ result.temperature # None
              /\ result.temperature.celsius = C6_Shape(parts[idx]).temp
              /\ result.dewpoint.celsius = C6_Shape(parts[idx]).dew

C6_Witness ==
    /\ Handled(<<"M","0","5","/","M","1","2">>)
    /\ result.temperature = [celsius |-> -5, fahrenheit |-> 23]
    /\ result.dewpoint = [celsius |-> -12, fahrenheit |-> 10]

\* the rendering rule of a visibility v
C7_Rendering(v) ==
    IF v.num >= 10 * v.den THEN <<"1","0","+"," ","m","i","l","e","s">>
    ELSE IF v.num >= v.den THEN NumStr(v) \o <<" ","m","i","l","e","s">>
    ELSE NumStr(v) \o <<" ","m","i","l","e">>

\* the tokens <n>SM and <n>/<d>SM, as [kind, n, d]
C7_Shape(t) ==
    LET body == SubSeq(t, 1, Len(t) - 2)
        slashes == {k \in DOMAIN body : body[k] = "/"}
    IN IF Len(t) < 3 \/ SubSeq(t, Len(t) - 1, Len(t)) # <<"S","M">> THEN [kind |-> "other"]
       ELSE IF AllDigits(body) THEN [kind |-> "int", n |-> ParseDigits(body)]
       ELSE IF Cardinality(slashes) = 1
            THEN LET k == CHOOSE j \in slashes : TRUE
                     n == SubSeq(body, 1, k - 1)
                     d == SubSeq(body, k + 1, Len(body))
                 IN IF IntOk(n) /\ IntOk(d)
                    THEN [kind |-> "fraction", n |-> ParseDigits(n), d |-> ParseDigits(d)]
                    ELSE [kind |-> "other"]
       ELSE [kind |-> "other"]

\* the last iteration of the loop has run on C7_Last: the token was handled,
\* or a later classifier raised on it
C7_Ran == op = "decode_metar" /\ result # None /\ (pc = "raised" \/ idx >= 1)

C7_Last == IF pc = "raised" THEN parts[idx + 1] ELSE parts[idx]

\* C7: decode_visibility(v) is '10+ miles' for v >= 10, '<v> miles' for
\* 1 <= v < 10 and '<v> mile' for v < 1; in decode_metar a token <n>SM gives
\* the int value n, a token <n>/<d>SM with d # 0 the float value n/d, and the
\* description is always the rendering of the value.
C7_Visibility ==
    /\ (op = "decode_visibility" /\ pc = "done") =>
          /\ ret = C7_Rendering(arg)
          /\ arg = PyInt(10) => ret = <<"1","0","+"," ","m","i","l","e","s">>
          /\ arg = PyInt(15) => ret = <<"1","0","+"," ","m","i","l","e","s">>
          /\ arg = PyInt(5) => ret = <<"5"," ","m","i","l","e","s">>
          /\ arg = PyInt(1) => ret = <<"1"," ","m","i","l","e","s">>
          /\ arg = PyFloat(1, 2) => ret = <<"0",".","5"," ","m","i","l","e">>
          /\ arg = PyFloat(1, 4) => ret = <<"0",".","2","5"," ","m","i","l","e">>
    /\ (op = "decode_metar" /\ result # None /\ result.visibility # None) =>
          result.visibility.description = C7_Rendering(result.visibility.value)
    /\ (C7_Ran /\ C7_Shape(C7_Last).kind = "int") =>
          /\ result.visibility # None
          /\ result.visibility.value = [float |-> FALSE, num |-> C7_Shape(C7_Last).n, den |-> 1]
    /\ (C7_Ran /\ C7_Shape(C7_Last).kind = "fraction" /\ C7_Shape(C7_Last).d # 0) =>
          /\ result.visibility # None
          /\ result.visibility.value.float
          /\ result.visibility.value.num * C7_Shape(C7_Last).d
                = C7_Shape(C7_Last).n * result.visibility.value.den

C7_Witness ==
    /\ Handled(<<"1","/","2","S","M">>)
    /\ result.visibility.value = [float |-> TRUE, num |-> 1, den |-> 2]
    /\ result.visibility.description = <<"0",".","5"," ","m","i","l","e">>

\* the text of a 2-letter code: descriptor first, then precipitation, then obscuration
C8_CodeText(code) ==
    IF code \in DOMAIN descriptor THEN descriptor[code]
    ELSE IF code \in DOMAIN precipitation THEN precipitation[code]
    ELSE obscuration[code]

C8_IsCode(token, i) ==
    Slice(token, i, i + 2) \in (DOMAIN descriptor \cup DOMAIN precipitation \cup DOMAIN obscuration)

\* the offsets of the codes of the token: a code starts at the first offset
\* after the intensity character, or at an offset that is not the second
\* character of the code before it
C8_CodeOffsets(token, start) ==
    CHOOSE P \in SUBSET (start..(Len(token) - 1)) :
        \A i \in start..(Len(token) - 1) :
            i \in P <=> (C8_IsCode(token, i) /\ (i = start \/ (i - 1) \notin P))

\* the texts of the codes at the offsets P that are >= i, left to right
RECURSIVE C8_Texts(_, _, _)
C8_Texts(token, P, i) ==
    IF i >= Len(token) THEN << >>
    ELSE IF i \in P THEN C8_CodeText(Slice(token, i, i + 2)) \o C8_Texts(token, P, i + 2)
    ELSE C8_Texts(token, P, i + 1)

\* C8: decode_weather_phenomenon(token) is the intensity text of an optional
\* leading - or + followed by the texts of the 2-letter codes of the token,
\* left to right; when that text is empty the raw token is returned, so the
\* result of a non-empty token is never empty.
C8_Phenomenon ==
    (op = "decode_weather_phenomenon" /\ pc = "done") =>
        LET start == IF Len(arg) >= 1 /\ arg[1] \in {"-", "+"} THEN 1 ELSE 0
            prefix == IF start = 0 THEN << >> ELSE IF arg[1] = "-" THEN <<"L","i","g","h","t"," ">> ELSE <<"H","e","a","v","y"," ">>
            composed == prefix \o C8_Texts(arg, C8_CodeOffsets(arg, start), start)
        IN /\ ret = IF composed = << >> THEN arg ELSE composed
           /\ arg # << >> => ret # << >>
           /\ arg = <<"R","A">> => ret = <<"r","a","i","n">>
           /\ arg = <<"-","R","A">> => ret = <<"L","i","g","h","t"," ","r","a","i","n">>
           /\ arg = <<"+","R","A">> => ret = <<"H","e","a","v","y"," ","r","a","i","n">>
           /\ arg = <<"T","S","R","A">> => ret = <<"T","h","u","n","d","e","r","s","t","o","r","m","s"," ","w","i","t","h"," ","r","a","i","n">>
           /\ arg = <<"F","G">> => ret = <<"f","o","g">>

C8_Witness ==
    /\ op = "decode_weather_phenomenon"
    /\ pc = "done"
    /\ arg = <<"+","T","S","R","A">>
    /\ ret = <<"H","e","a","v","y"," ","T","h","u","n","d","e","r","s","t","o","r","m","s"," ","w","i","t","h"," ","r","a","i","n">>

C8_FallbackWitness ==
    op = "decode_weather_phenomenon" /\ pc = "done" /\ arg = <<"X","X">> /\ ret = <<"X","X">>

C9_SkyCodes == {<<"C","L","R">>, <<"S","K","C">>, <<"F","E","W">>, <<"S","C","T">>, <<"B","K","N">>, <<"O","V","C">>}

\* the [condition, height] of the layers of the sky tokens among tokens, in order
RECURSIVE C9_Layers(_)
C9_Layers(tokens) ==
    IF tokens = << >> THEN << >>
    ELSE LET t == tokens[Len(tokens)]
             before == C9_Layers(SubSeq(tokens, 1, Len(tokens) - 1))
         IN IF Len(t) >= 3 /\ SubSeq(t, 1, 3) \in C9_SkyCodes
            THEN Append(before,
                        [condition |-> SubSeq(t, 1, 3),
                         height |-> IF Len(t) >= 6 /\ AllDigits(SubSeq(t, 4, 6))
                                    THEN Some(100 * ParseDigits(SubSeq(t, 4, 6)))
                                    ELSE None])
            ELSE before

\* C9: sky_conditions is the sequence of the layers of the sky tokens handled
\* so far, one per token, in token order; a layer's condition is the token's
\* 3-letter code, its height is absent when no 3 digits follow the code and
\* digits * 100 otherwise.
C9_SkyLayers ==
    InLoop =>
        /\ [k \in DOMAIN result.sky_conditions |->
                [condition |-> result.sky_conditions[k].condition,
                 height |-> result.sky_conditions[k].height]]
             = C9_Layers(SubSeq(parts, 1, idx))
        /\ \A k \in DOMAIN result.sky_conditions :
              result.sky_conditions[k].height # None =>
                  result.sky_conditions[k].height[1] % 100 = 0
        /\ pc = "done" => ret.sky_conditions = result.sky_conditions

C9_Witness ==
    /\ InLoop
    /\ parts = << <<"B","K","N","0","0","8">>, <<"O","V","C","0","1","5">> >>
    /\ idx = 2
    /\ Len(result.sky_conditions) = 2
    /\ result.sky_conditions[1].condition = <<"B","K","N">>
    /\ result.sky_conditions[1].height = Some(800)
    /\ result.sky_conditions[2].condition = <<"O","V","C">>
    /\ result.sky_conditions[2].height = Some(1500)

\* six digits followed by Z
C10_IsTimeToken(t) == Len(t) >= 7 /\ AllDigits(SubSeq(t, 1, 6)) /\ t[7] = "Z"

\* C10: a token of six digits followed by Z sets time to
\* '<day>th at <hour>:<minute> UTC' from its digit pairs and changes no other
\* field of the record.
C10_TimeFrame ==
    [][(op = "decode_metar" /\ pc = "loop" /\ idx < Len(parts)
            /\ C10_IsTimeToken(parts[idx + 1])) =>
        LET t == parts[idx + 1]
        IN /\ result'.time = <<t[1], t[2]>> \o <<"t","h"," ","a","t"," ">> \o <<t[3], t[4]>> \o <<":">>
                                \o <<t[5], t[6]>> \o <<" ","U","T","C">>
           /\ \A f \in ReportFields \ {"time"} : result'[f] = result[f]
           /\ pc' = "loop"
           /\ idx' = idx + 1]_vars

C10_Witness ==
    /\ Handled(<<"1","6","1","2","5","1","Z">>)
    /\ idx = 2
    /\ result.time = <<"1","6","t","h"," ","a","t"," ","1","2",":","5","1"," ","U","T","C">>
    /\ result.wind # None

\* code is raw without its leading and trailing blanks, in upper case
C11_Normalised(raw, code) ==
    \E a \in 0..Len(raw) : \E b \in a..Len(raw) :
        /\ \A k \in 1..a : raw[k] = " "
        /\ \A k \in (b + 1)..Len(raw) : raw[k] = " "
        /\ b > a => (raw[a + 1] # " " /\ raw[b] # " ")
        /\ Len(code) = b - a
        /\ \A k \in 1..(b - a) :
              /\ ~IsLower(code[k])
              /\ \/ code[k] = raw[a + k]
                 \/ \E j \in DOMAIN Lower : raw[a + k] = Lower[j] /\ code[k] = Upper[j]

C11_NothingInvoked == fetch_calls = << >> /\ http_calls = << >> /\ decode_calls = << >>

\* C11: get_metar works on the submitted code stripped and uppercased; an
\* empty code ends the request with 'Please enter an airport code' and a code
\* of another length than 4 with 'Airport code must be 4 characters (e.g.,
\* KTIG)', in both cases without any call of fetch_metar, of requests.get or
\* of the decoder, in any state; a code of length 4 is never rejected, and
\* fetch_metar is only ever called with a 4-character code in upper case.
C11_ValidationFirst ==
    op = "get_metar" =>
        /\ pc # "start" => C11_Normalised(IF arg = None THEN << >> ELSE arg[1], airport_code)
        /\ (pc # "start" /\ Len(airport_code) = 0) =>
              /\ pc = "done"
              /\ ret = [error |-> <<"P","l","e","a","s","e"," ","e","n","t","e","r"," ","a","n"," ","a","i","r","p","o","r","t"," ","c","o","d","e">>]
              /\ C11_NothingInvoked
        /\ (pc # "start" /\ Len(airport_code) \notin {0, 4}) =>
              /\ pc = "done"
              /\ ret = [error |-> <<"A","i","r","p","o","r","t"," ","c","o","d","e"," ","m","u","s","t"," ","b","e"," ","4"," ","c","h","a","r","a","c","t","e","r","s"," ","(","e",".","g",".",","," ","K","T","I","G",")">>]
              /\ C11_NothingInvoked
        /\ (pc # "start" /\ Len(airport_code) = 4) =>
              (pc = "fetch" /\ C11_NothingInvoked) \/ Len(fetch_calls) = 1
        /\ pc = "start" => C11_NothingInvoked
        /\ \A k \in DOMAIN fetch_calls :
              /\ Len(fetch_calls[k]) = 4
              /\ \A j \in 1..4 : ~IsLower(fetch_calls[k][j])
              /\ fetch_calls[k] = airport_code

C11_Witness ==
    /\ op = "get_metar"
    /\ arg = Some(<<" ","k","t","i","g"," ">>)
    /\ fetch_calls = <<<<"K","T","I","G">>>>

\* C12: once fetch_metar has returned, the request ends with a response: for
\* an error the response is exactly {error: that message} and the decoder is
\* not called; otherwise it is exactly {airport_code, raw_metar,
\* decoded_data} with the validated code, the text as fetched and
\* decode_metar(raw_metar), and has no 'error' key.
\* The handler has no try/except around decode_metar: when the decoder raises
\* on the fetched text the request ends with the exception, not the triple.
C12_Response ==
    (op = "get_metar" /\ pc \in {"done", "raised"} /\ Len(fetch_calls) = 1) =>
        IF fetched[2] # None
        THEN /\ pc = "done"
             /\ ret = [error |-> fetched[2]]
             /\ decode_calls = << >>
        ELSE /\ pc = "done"
             /\ DOMAIN ret = {"airport_code", "raw_metar", "decoded_data"}
             /\ ret.airport_code = airport_code
             /\ ret.raw_metar = fetched[1]
             /\ ret.decoded_data = decode_metar(Some(fetched[1])).result
             /\ decode_calls = <<fetched[1]>>

\* code is raw with its lowercase letters in upper case
C13_Uppercased(raw, code) ==
    /\ Len(code) = Len(raw)
    /\ \A k \in 1..Len(raw) :
          /\ ~IsLower(code[k])
          /\ \/ code[k] = raw[k]
             \/ \E j \in DOMAIN Lower : raw[k] = Lower[j] /\ code[k] = Upper[j]

\* text is raw without its leading and trailing blanks
C13_Stripped(raw, text) ==
    \E a \in 0..Len(raw) : \E b \in a..Len(raw) :
        /\ \A k \in 1..a : raw[k] = " "
        /\ \A k \in (b + 1)..Len(raw) : raw[k] = " "
        /\ b > a => (raw[a + 1] # " " /\ raw[b] # " ")
        /\ text = SubSeq(raw, a + 1, b)

\* the body holds nothing but blanks
C13_Blank(text) == \A k \in DOMAIN text : text[k] = " "

\* the contract of fetch_metar for the code it was called with and the pair
\* it returned
C13_Contract(code, pair) ==
    /\ \/ pair[1] # None /\ Len(pair[1]) > 0 /\ pair[2] = None
       \/ pair[1] = None /\ pair[2] # None /\ Len(pair[2]) > 0
    /\ network.kind \in {"get_raises", "status_raises"} =>
          /\ pair[1] = None
          /\ StartsWith(pair[2], <<"E","r","r","o","r"," ","f","e","t","c","h","i","n","g"," ","M","E","T","A","R"," ","d","a","t","a",":"," ">>)
    /\ (network.kind = "body" /\ C13_Blank(network.text)) =>
          pair = <<None, <<"N","o"," ","M","E","T","A","R"," ","d","a","t","a"," ","f","o","u","n","d"," ","f","o","r"," ","t","h","i","s"," ","a","i","r","p","o","r","t"," ","c","o","d","e">>>>
    /\ (network.kind = "body" /\ ~C13_Blank(network.text)) =>
          /\ pair[2] = None
          /\ C13_Stripped(network.text, pair[1])
    /\ Len(http_calls) = 1
    /\ http_calls[1].timeout = 10
    /\ LET url == http_calls[1].url
           base == <<"h","t","t","p","s",":","/","/","a","v","i","a","t","i","o","n","w","e","a","t","h","e","r",".","g","o","v","/","a","p","i","/","d","a","t","a","/","m","e","t","a","r","?","i","d","s","=">>
       IN /\ StartsWith(url, base)
          /\ C13_Uppercased(code, SubSeq(url, Len(base) + 1, Len(url)))

\* C13: every call of fetch_metar returns, and returns exactly one of
\* (non-empty text, None) and (None, non-empty message); a failed request
\* gives (None, 'Error fetching METAR data: ...'), an empty or blank body
\* gives (None, 'No METAR data found for this airport code'), another body is
\* returned stripped; one request is made, for the uppercased code with a
\* timeout of 10 seconds.  The same holds for the call made by get_metar.
C13_FetchContract ==
    /\ op = "fetch_metar" => pc \in {"start", "done"} /\ exc = None
    /\ (op = "fetch_metar" /\ pc = "done") => C13_Contract(arg, ret)
    /\ (op = "get_metar" /\ Len(fetch_calls) > 0) => C13_Contract(fetch_calls[1], fetched)
    /\ (op = "get_metar" /\ pc = "raised") => Len(decode_calls) = 1

C13_Witness ==
    /\ op = "fetch_metar"
    /\ pc = "done"
    /\ arg = <<"k","j","f","k">>
    /\ network = [kind |-> "body", text |-> <<" "," "," ">>]
    /\ ret = <<None, <<"N","o"," ","M","E","T","A","R"," ","d","a","t","a"," ","f","o","u","n","d"," ","f","o","r"," ","t","h","i","s"," ","a","i","r","p","o","r","t"," ","c","o","d","e">>>>

\* the token is 'A' followed by exactly four digits
C14_IsPressureToken(t) == Len(t) = 5 /\ t[1] = "A" /\ AllDigits(SubSeq(t, 2, 5))

C14_Number(t) ==
    1000 * DigitVal(t[2]) + 100 * DigitVal(t[3]) + 10 * DigitVal(t[4]) + DigitVal(t[5])

\* the pressure record of the claim for the number n of the token
C14_Record(p, n) ==
    /\ p.inches_hg.float
    /\ p.inches_hg.num * 100 = n * p.inches_hg.den
    /\ p.description =
          IntStr(n \div 100) \o <<".">> \o IntStr((n % 100) \div 10) \o IntStr(n % 10)
              \o <<" ","i","n","c","h","e","s"," ","H","g">>

\* C14: in every state of the token loop, pressure is set only by the tokens
\* that are 'A' followed by exactly four digits: it is None when no such
\* token was handled, and otherwise it is, for the number n of the last such
\* token, inches_hg = n / 100 with the description '<n div 100>.<two digits
\* of n mod 100> inches Hg'.
\* The pattern is matched as a prefix, so a token that continues after the
\* four digits (A2995X, A30125) sets the pressure too.
C14_PressureExact ==
    InLoop =>
        LET ks == {k \in 1..idx : C14_IsPressureToken(parts[k])}
        IN IF ks = {} THEN result.pressure = None
           ELSE /\ result.pressure # None
                /\ C14_Record(result.pressure,
                              C14_Number(parts[CHOOSE k \in ks : \A j \in ks : j <= k]))

\* one letter followed by four digits, the shape of the exclusion of line 302
C15_LetterAndFourDigits(t) == Len(t) = 5 /\ IsUpper(t[1]) /\ AllDigits(SubSeq(t, 2, 5))

\* C15: in every state of the token loop no entry of weather_phenomena has
\* for code a token the wind classifier matches (with a numeric direction or
\* VRB), a token the pressure classifier matches, a token of one letter and
\* four digits, or one of AUTO, COR, RMK.
\* The exclusion of line 302 tests for a token that starts with five digits,
\* which the weather pattern never matches, so a variable-wind token such as
\* VRB05KT passes it and is appended.
C15_NoWindOrPressure ==
    InLoop =>
        \A k \in DOMAIN result.weather_phenomena :
            LET code == result.weather_phenomena[k].code
            IN /\ wind_match(code) = None
               /\ pressure_match(code) = None
               /\ ~C15_LetterAndFourDigits(code)
               /\ code \notin {<<"A","U","T","O">>, <<"C","O","R">>, <<"R","M","K">>}

\* the classifier c, run alone on the record r and the token t, returns and
\* the record r2 has the fields it gives
C16_Effect(c, fields, r2) == c.exc = None /\ \A f \in fields : r2[f] = c.result[f]

\* r2 is r with the effect of every classifier whose pattern matches t
C16_Applied(r, t, r2) ==
    /\ wind_match(t) # None => C16_Effect(WindClassifier(r, t), {"wind"}, r2)
    /\ (visibility_match(t) \/ fraction_match(t)) =>
          C16_Effect(VisibilityClassifier(r, t), {"visibility"}, r2)
    /\ temperature_match(t) =>
          C16_Effect(TemperatureClassifier(r, t), {"temperature", "dewpoint"}, r2)
    /\ sky_match(t) # None => C16_Effect(SkyClassifier(r, t), {"sky_conditions"}, r2)
    /\ (weather_match(t) /\ t \notin {<<"A","U","T","O">>, <<"C","O","R">>, <<"R","M","K">>}) =>
          C16_Effect(WeatherClassifier(r, t), {"weather_phenomena"}, r2)
    /\ pressure_match(t) # None => C16_Effect(PressureClassifier(r, t), {"pressure"}, r2)

\* C16: every step of the token loop on a token that is not a time token
\* completes, and leaves the record with the effect of every classifier whose
\* pattern the token matches: a token that matches the sky and the weather
\* pattern adds to sky_conditions and to weather_phenomena.
\* A classifier that raises ends the call: the later classifiers the token
\* matches are not applied, and no record is returned.
C16_AllMatchesApplied ==
    [][(op = "decode_metar" /\ pc = "loop" /\ idx < Len(parts)
            /\ time_match(parts[idx + 1]) = None)
          => (pc' = "loop" /\ C16_Applied(result, parts[idx + 1], result'))]_vars

\* the largest of a set of token indexes, 0 for the empty set
C17_Last(ks) == IF ks = {} THEN 0 ELSE CHOOSE k \in ks : \A j \in ks : j <= k

C17_WindToken(t) == wind_match(t) # None

C17_VisibilityToken(t) == visibility_match(t) \/ fraction_match(t)

C17_PressureToken(t) == pressure_match(t) # None

C17_TimeToken(t) == time_match(t) # None

C17_WeatherToken(t) == weather_match(t) /\ t \notin {<<"A","U","T","O">>, <<"C","O","R">>, <<"R","M","K">>}

\* the entries of the weather tokens among tokens, in order
RECURSIVE C17_Entries(_)
C17_Entries(tokens) ==
    IF tokens = << >> THEN << >>
    ELSE LET t == tokens[Len(tokens)]
             before == C17_Entries(SubSeq(tokens, 1, Len(tokens) - 1))
         IN IF C17_WeatherToken(t)
            THEN Append(before, [code |-> t, description |-> decode_weather_phenomenon(t)])
            ELSE before

\* the record a classifier gives for token k alone; None for k = 0
C17_Alone(k, outcome) == IF k = 0 THEN [f \in ReportFields |-> None] ELSE outcome.result

\* each scalar field has the value the last matching token of those handled
\* so far gives to an empty record, and None without such a token
C17_StateInvariant ==
    InLoop =>
        LET w == C17_Last({k \in 1..idx : C17_WindToken(parts[k])})
            v == C17_Last({k \in 1..idx : C17_VisibilityToken(parts[k])})
            t == C17_Last({k \in 1..idx : temperature_match(parts[k])})
            p == C17_Last({k \in 1..idx : C17_PressureToken(parts[k])})
            z == C17_Last({k \in 1..idx : C17_TimeToken(parts[k])})
        IN /\ result.wind = C17_Alone(w, WindClassifier(InitialResult, parts[w])).wind
           /\ result.visibility =
                 C17_Alone(v, VisibilityClassifier(InitialResult, parts[v])).visibility
           /\ result.temperature =
                 C17_Alone(t, TemperatureClassifier(InitialResult, parts[t])).temperature
           /\ result.dewpoint =
                 C17_Alone(t, TemperatureClassifier(InitialResult, parts[t])).dewpoint
           /\ result.pressure =
                 C17_Alone(p, PressureClassifier(InitialResult, parts[p])).pressure
           /\ result.time = C17_Alone(z, ProcessPart(InitialResult, parts[z])).time
           /\ result.weather_phenomena = C17_Entries(SubSeq(parts, 1, idx))

C17_Step ==
    (op = "decode_metar" /\ pc = "loop" /\ pc' = "loop") =>
        /\ Len(result'.sky_conditions) >= Len(result.sky_conditions)
        /\ Len(result'.weather_phenomena) >= Len(result.weather_phenomena)
        /\ \A f \in {"wind", "visibility", "temperature", "dewpoint", "pressure", "time"} :
              result[f] # None => result'[f] # None

\* C17: in every state of the token loop each of wind, visibility,
\* temperature, dewpoint, pressure and time has the value of the last token
\* handled so far that matched its classifier, whatever tokens followed it,
\* and is None when there was none; weather_phenomena holds one entry
\* {code: the token, description} per matching token, in token order and
\* with repetitions; no step of the loop shortens sky_conditions or
\* weather_phenomena or clears a scalar field.
C17_LastMatchWins == []C17_StateInvariant /\ [][C17_Step]_vars

C17_Witness ==
    /\ InLoop
    /\ parts = <<<<"A","3","0","1","2">>, <<"A","3","0","0","0">>>>
    /\ idx = 2
    /\ result.pressure.description = <<"3","0",".","0","0"," ","i","n","c","h","e","s"," ","H","g">>

\* the offset of the first code: after the intensity character, if any
C18_Start == IF Len(arg) >= 1 /\ arg[1] \in {"-", "+"} THEN 1 ELSE 0

\* an iteration of the scan that reads a slice of two characters
C18_Iteration ==
    /\ op = "decode_weather_phenomenon"
    /\ pc = "scan"
    /\ pc' = "scan"
    /\ scan.i + 2 <= Len(arg)

\* C18 as stated: an unknown slice is skipped whole, and a text is appended
\* only for a code at an even offset from the first code.  The code advances
\* by one character, so 'XRA' is decoded to 'rain'.
C18_SkipsWholeSlice ==
    [][C18_Iteration =>
          IF C8_IsCode(arg, scan.i)
          THEN (scan.i - C18_Start) % 2 = 0
          ELSE scan'.i = scan.i + 2 /\ scan'.result = scan.result]_vars

\* C18: an iteration of the scan on a slice of two characters that is in
\* none of the tables appends nothing and advances the position by one
\* character, so that the next slice starts with the second character of
\* the skipped one; an iteration on a known code appends its text and
\* advances by two.  A text can therefore appear for a code at an odd offset
\* from the first code: 'XRA' gives 'rain' and '-XRA' gives 'Light rain'.
C18_SkipsOneCharacter ==
    /\ [][C18_Iteration =>
            IF C8_IsCode(arg, scan.i)
            THEN /\ scan'.i = scan.i + 2
                 /\ scan'.result = scan.result \o C8_CodeText(Slice(arg, scan.i, scan.i + 2))
            ELSE /\ scan'.i = scan.i + 1
                 /\ scan'.result = scan.result]_vars
    /\ []((op = "decode_weather_phenomenon" /\ pc = "done") =>
            /\ arg = <<"X","R","A">> => ret = <<"r","a","i","n">>
            /\ arg = <<"-","X","R","A">> => ret = <<"L","i","g","h","t"," ","r","a","i","n">>
            /\ arg = <<"X","X">> => ret = <<"X","X">>)

C18_Witness ==
    /\ op = "decode_weather_phenomenon"
    /\ arg = <<"-","X","R","A">>
    /\ pc = "scan"
    /\ scan = [i |-> 4, result |-> <<"L","i","g","h","t"," ","r","a","i","n">>]
    /\ iterations = 2

\* the scan of decode_weather_phenomenon is running or has returned
C20_Scanning == op = "decode_weather_phenomenon" /\ pc \in {"scan", "done"}

\* C20: the scan of decode_weather_phenomenon terminates for every token.
\* The index starts at 0 or 1; every iteration increases it by 1 or 2; the
\* loop runs while the index is below the token length and the call returns
\* once it is not; the iterations made never exceed the characters the index
\* has passed, hence never len(token); every call returns.
C20_ScanTerminates ==
    /\ [](C20_Scanning =>
            /\ scan.i >= C18_Start
            /\ C18_Start \in {0, 1}
            /\ iterations <= scan.i - C18_Start
            /\ iterations <= Len(arg)
            /\ scan.i <= Len(arg)
            /\ pc = "done" => scan.i >= Len(arg))
    /\ [][(op = "decode_weather_phenomenon" /\ pc = "start") =>
            (pc' = "scan" /\ scan'.i = C18_Start /\ iterations' = 0)]_vars
    /\ [][(op = "decode_weather_phenomenon" /\ pc = "scan") =>
            IF scan.i < Len(arg)
            THEN pc' = "scan" /\ scan'.i - scan.i \in {1, 2} /\ iterations' = iterations + 1
            ELSE pc' = "done" /\ scan' = scan]_vars
    /\ [][(C20_Scanning /\ Len(arg) - scan.i = 1 /\ pc' = "scan") =>
            scan' = [i |-> Len(arg), result |-> scan.result]]_vars
    /\ (op = "decode_weather_phenomenon") ~> (pc = "done")

C20_Witness ==
    /\ op = "decode_weather_phenomenon"
    /\ arg = <<"T","S","R","X">>
    /\ pc = "done"
    /\ scan.i = 4
    /\ iterations = 3

\* invocation t has ended as the same call ends when it runs alone
C19_AsAlone(t) ==
    LET alone == decode_metar(threads[t].arg)
    IN /\ threads[t].pc = "done" => (alone.exc = None /\ threads[t].ret = alone.result)
       /\ threads[t].pc = "raised" => threads[t].exc = alone.exc
       /\ alone.exc = None => threads[t].pc # "raised"

\* C19: under every interleaving of the steps of two invocations of
\* decode_metar, on one decoder or on two, each invocation returns the record
\* (or raises the exception) it gives when it runs alone; a step of one
\* invocation leaves the locals of the other as they were, and no step
\* writes the wind_directions table of a decoder.
C19_NoInterference ==
    /\ [](op = "threads" => \A t \in Threads : C19_AsAlone(t))
    /\ [](op = "threads" => \A d \in Threads : decoders[d] = wind_directions)
    /\ [][op = "threads" =>
            \E t \in Threads : \A u \in Threads \ {t} : threads'[u] = threads[u]]_vars

C19_Witness ==
    /\ op = "threads"
    /\ threads[1].self = threads[2].self
    /\ threads[1].arg = Some(<<"B","K","N","0","0","8"," ","2","8","0","0","8","K","T">>)
    /\ threads[2].arg = Some(<<"2","8","0","0","8","K","T"," ","B","K","N","0","0","8">>)
    /\ threads[1].pc = "done"
    /\ threads[2].pc = "loop"
    /\ threads[2].idx = 1
    /\ Len(threads[1].ret.sky_conditions) = 1
    /\ threads[2].result.sky_conditions = << >>

=============================================================================
